---- MODULE Spec2Model ----
(***************************************************************************)
(* User-space CFS scheduler with heuristics (cfs_scheduler_human.c; the    *)
(* two copies in CFS_Heuristic_upgrade.c have the same logic).             *)
(*                                                                         *)
(* The state is the global scheduler_t, the locals of schedule_processes   *)
(* that live across its blocking points, the monotonic clock and the       *)
(* state of each forked child.  Times are milliseconds, vruntime and       *)
(* scores are nanoseconds, exactly as in the source.                       *)
(***************************************************************************)
EXTENDS Integers, Sequences, FiniteSets, TLC

(* ------------------------------ constants ------------------------------ *)
TIME_QUANTUM_MS == 10
MIN_GRANULARITY_MS == 5
SCHEDULER_TICK_MS == 1
CFS_WEIGHT_NICE_0 == 1024
MAX_WAIT_THRESHOLD_MS == 100
INTERACTIVE_THRESHOLD_MS == 50
AGING_BOOST_CAP == 10
AGING_BOOST_STEP_MS == 10
AGING_SCORE_NS == 100000000
INTERACTIVE_BONUS_NS == 50000000
LONG_JOB_PENALTY_NS == 10000000
LONG_JOB_REMAINING_MS == 100
NS_PER_MS == 1000000
SETUP_SLEEP_MS == 1

(* ------------------------------- bounds -------------------------------- *)
\* total ms, over one run, by which sleeps overrun and by which the clock moves
\* between the loop's clock reading and the selector's
MaxDrift == 1
\* how many children end before the loop has finished their task
MaxExits == 1
\* clock reading taken by initialize_scheduler
StartClock == 1000
\* longest executed time, in ms, charged to a task on its own
MaxExecMs == 12
\* nice values handed to nice_to_weight: -NiceSpan .. NiceSpan - 1
NiceSpan == 22
\* tasks registered by the registration loop on its own
MaxRegistered == 2
\* longest time, in ms, by which main's forks and sleeps overrun in all
MaxSetupOverrun == 9

(* workload tuples (arrival_ms, burst_ms, nice): the task lists are built from
   four rows of main's table and from two more; the fifth arrives when waits
   reach the aging threshold, the sixth is a job long enough to miss the
   interactive bonus, to get the long-job penalty and to reach the aging cap *)
MainKinds ==
    { <<0, 60, 0>>, <<10, 20, -5>>, <<15, 80, 5>>, <<30, 15, -10>> }

TaskKinds ==
    MainKinds \cup { <<100, 15, -10>>, <<0, 200, 5>> }

Workloads ==
    { <<a>> : a \in TaskKinds } \cup { <<a, b>> : a \in TaskKinds, b \in TaskKinds }

\* the task lists of the runs checked for termination
FairWorkloads ==
    { <<a>> : a \in TaskKinds } \cup { <<a, b>> : a \in MainKinds, b \in MainKinds }

VARIABLES
    processes,               \* scheduler.processes[0 .. num_processes-1]
    current_process_idx,     \* scheduler.current_process_idx
    min_vruntime_ns,         \* scheduler.min_vruntime_ns
    scheduler_start_time_ms, \* scheduler.scheduler_start_time_ms
    completed_count,         \* scheduler.completed_count
    now,                     \* what get_time_ms() returns
    pc,                      \* position of schedule_processes
    current_time,            \* local of schedule_processes (= scheduler.current_time_ms)
    next_idx,                \* local of schedule_processes
    child,                   \* per task: the forked process
    drift                    \* ms by which sleeps and clock readings have overrun so far

vars == <<processes, current_process_idx, min_vruntime_ns, scheduler_start_time_ms,
          completed_count, now, pc, current_time, next_idx, child, drift>>

\* the overruns a sleep or a pair of clock readings may still show
Overruns == 0 .. (MaxDrift - drift)

num_processes == Cardinality(DOMAIN processes)
Idx == DOMAIN processes

(* --------------------------- Weight Table ------------------------------ *)
weights ==
    << 88761, 71755, 56483, 46273, 36291, 29154, 23254, 18705, 14949, 11916,
       9548, 7620, 6100, 4904, 3906, 3121, 2501, 1991, 1586, 1277,
       1024, 820, 655, 526, 423, 335, 272, 215, 172, 137,
       110, 87, 70, 56, 45, 36, 29, 23 >>

\* idx after the two clamps: 0 .. 39
weight_idx(nice) ==
    LET idx0 == nice + 20
        idx1 == IF idx0 < 0 THEN 0 ELSE idx0
    IN  IF idx1 > 39 THEN 39 ELSE idx1

\* weights[idx] of the C array is weights[idx + 1] of the tuple; the array has
\* 38 initialised entries, and this is the value returned for idx 0 .. 37
nice_to_weight(nice) == weights[weight_idx(nice) + 1]

\* what a read of an int past the end of the array may yield: the two values
\* the standard table would hold there, zero, a negative, and other words
OutOfBoundsReads == {-1, 0, 15, 18, 23, 1024, 88761}

\* the values a call may return: the table entry for idx 0 .. 37, and for
\* idx 38 and 39 (nice 18, 19 and above) whatever lies behind the array
nice_to_weight_results(nice) ==
    IF weight_idx(nice) < Len(weights)
    THEN {nice_to_weight(nice)}
    ELSE OutOfBoundsReads

(* --------------------------- process control --------------------------- *)
\* stop_process that flips the process between stopped and running
stop_process_toggle(ch, i) ==
    IF ch[i] = "running" THEN [ch EXCEPT ![i] = "stopped"]
    ELSE IF ch[i] = "stopped" THEN [ch EXCEPT ![i] = "running"]
    ELSE ch

\* kill(pid, SIGSTOP): stops a live process, no effect on one that exited
stop_process(ch, i) ==
    IF ch[i] = "running" THEN [ch EXCEPT ![i] = "stopped"] ELSE ch

\* kill(pid, SIGCONT)
continue_process(ch, i) ==
    IF ch[i] = "stopped" THEN [ch EXCEPT ![i] = "running"] ELSE ch

(* --------------------------- Heuristic Engine -------------------------- *)
\* aging_boost_for without the "if (aging_boost > 10)" clamp
aging_boost_uncapped(tw) ==
    IF tw > MAX_WAIT_THRESHOLD_MS
    THEN (tw - MAX_WAIT_THRESHOLD_MS) \div AGING_BOOST_STEP_MS
    ELSE 0

\* the aging_boost a total wait of tw ms gives
aging_boost_for(tw) ==
    LET raw == (tw - MAX_WAIT_THRESHOLD_MS) \div AGING_BOOST_STEP_MS
    IN  IF tw > MAX_WAIT_THRESHOLD_MS
        THEN (IF raw > AGING_BOOST_CAP THEN AGING_BOOST_CAP ELSE raw)
        ELSE 0

\* compute_heuristic_metrics that counts the wait only while the task has
\* not run yet (first_run == 0)
compute_heuristic_metrics_first_wait(proc, t) ==
    LET wait_delta == t - proc.last_schedule_time_ms
        tw == IF proc.state \in {"PROC_READY", "PROC_STOPPED"} /\ wait_delta > 0
                 /\ proc.first_run = 0
              THEN proc.total_wait_time_ms + wait_delta
              ELSE proc.total_wait_time_ms
        boost == aging_boost_for(tw)
        seed == proc.remaining_time_ms \div 4
        est == IF proc.estimated_burst_ms = 0
               THEN (IF seed < TIME_QUANTUM_MS THEN TIME_QUANTUM_MS ELSE seed)
               ELSE proc.estimated_burst_ms
        base == (proc.remaining_time_ms * 100) \div proc.burst_time_ms
        inter == IF proc.burst_time_ms > 0
                 THEN (IF est < INTERACTIVE_THRESHOLD_MS THEN base + 20 ELSE base)
                 ELSE proc.interactivity_score
    IN  [proc EXCEPT !.total_wait_time_ms = tw,
                     !.aging_boost = boost,
                     !.estimated_burst_ms = est,
                     !.interactivity_score = inter,
                     !.last_schedule_time_ms = t]

\* compute_heuristic_metrics that seeds estimated_burst_ms at every call
compute_heuristic_metrics_reseed(proc, t) ==
    LET wait_delta == t - proc.last_schedule_time_ms
        tw == IF proc.state \in {"PROC_READY", "PROC_STOPPED"} /\ wait_delta > 0
              THEN proc.total_wait_time_ms + wait_delta
              ELSE proc.total_wait_time_ms
        boost == aging_boost_for(tw)
        seed == proc.remaining_time_ms \div 4
        est == IF seed < TIME_QUANTUM_MS THEN TIME_QUANTUM_MS ELSE seed
        base == (proc.remaining_time_ms * 100) \div proc.burst_time_ms
        inter == IF proc.burst_time_ms > 0
                 THEN (IF est < INTERACTIVE_THRESHOLD_MS THEN base + 20 ELSE base)
                 ELSE proc.interactivity_score
    IN  [proc EXCEPT !.total_wait_time_ms = tw,
                     !.aging_boost = boost,
                     !.estimated_burst_ms = est,
                     !.interactivity_score = inter,
                     !.last_schedule_time_ms = t]

\* compute_heuristic_metrics that adds the bonus to the score it finds
compute_heuristic_metrics_accumulating(proc, t) ==
    LET wait_delta == t - proc.last_schedule_time_ms
        tw == IF proc.state \in {"PROC_READY", "PROC_STOPPED"} /\ wait_delta > 0
              THEN proc.total_wait_time_ms + wait_delta
              ELSE proc.total_wait_time_ms
        boost == aging_boost_for(tw)
        seed == proc.remaining_time_ms \div 4
        est == IF proc.estimated_burst_ms = 0
               THEN (IF seed < TIME_QUANTUM_MS THEN TIME_QUANTUM_MS ELSE seed)
               ELSE proc.estimated_burst_ms
        base == (proc.remaining_time_ms * 100) \div proc.burst_time_ms
        inter == IF proc.burst_time_ms > 0
                 THEN (IF est < INTERACTIVE_THRESHOLD_MS
                       THEN proc.interactivity_score + 20 ELSE base)
                 ELSE proc.interactivity_score
    IN  [proc EXCEPT !.total_wait_time_ms = tw,
                     !.aging_boost = boost,
                     !.estimated_burst_ms = est,
                     !.interactivity_score = inter,
                     !.last_schedule_time_ms = t]

\* compute_heuristic_metrics that scales the seed of the estimate by the
\* interactivity score it finds
compute_heuristic_metrics_scored_seed(proc, t) ==
    LET wait_delta == t - proc.last_schedule_time_ms
        tw == IF proc.state \in {"PROC_READY", "PROC_STOPPED"} /\ wait_delta > 0
              THEN proc.total_wait_time_ms + wait_delta
              ELSE proc.total_wait_time_ms
        boost == aging_boost_for(tw)
        seed == ((proc.remaining_time_ms * proc.interactivity_score) \div 100) \div 4
        est == IF proc.estimated_burst_ms = 0
               THEN (IF seed < TIME_QUANTUM_MS THEN TIME_QUANTUM_MS ELSE seed)
               ELSE proc.estimated_burst_ms
        base == (proc.remaining_time_ms * 100) \div proc.burst_time_ms
        inter == IF proc.burst_time_ms > 0
                 THEN (IF est < INTERACTIVE_THRESHOLD_MS THEN base + 20 ELSE base)
                 ELSE proc.interactivity_score
    IN  [proc EXCEPT !.total_wait_time_ms = tw,
                     !.aging_boost = boost,
                     !.estimated_burst_ms = est,
                     !.interactivity_score = inter,
                     !.last_schedule_time_ms = t]

\* compute_heuristic_metrics without the final "last_schedule_time_ms = current_time"
compute_heuristic_metrics_stale(proc, t) ==
    LET wait_delta == t - proc.last_schedule_time_ms
        tw == IF proc.state \in {"PROC_READY", "PROC_STOPPED"} /\ wait_delta > 0
              THEN proc.total_wait_time_ms + wait_delta
              ELSE proc.total_wait_time_ms
        boost == aging_boost_for(tw)
        seed == proc.remaining_time_ms \div 4
        est == IF proc.estimated_burst_ms = 0
               THEN (IF seed < TIME_QUANTUM_MS THEN TIME_QUANTUM_MS ELSE seed)
               ELSE proc.estimated_burst_ms
        base == (proc.remaining_time_ms * 100) \div proc.burst_time_ms
        inter == IF proc.burst_time_ms > 0
                 THEN (IF est < INTERACTIVE_THRESHOLD_MS THEN base + 20 ELSE base)
                 ELSE proc.interactivity_score
    IN  [proc EXCEPT !.total_wait_time_ms = tw,
                     !.aging_boost = boost,
                     !.estimated_burst_ms = est,
                     !.interactivity_score = inter]

compute_heuristic_metrics(proc, t) ==
    LET wait_delta == t - proc.last_schedule_time_ms
        tw == IF proc.state \in {"PROC_READY", "PROC_STOPPED"} /\ wait_delta > 0
              THEN proc.total_wait_time_ms + wait_delta
              ELSE proc.total_wait_time_ms
        boost == aging_boost_for(tw)
        seed == proc.remaining_time_ms \div 4
        est == IF proc.estimated_burst_ms = 0
               THEN (IF seed < TIME_QUANTUM_MS THEN TIME_QUANTUM_MS ELSE seed)
               ELSE proc.estimated_burst_ms
        base == (proc.remaining_time_ms * 100) \div proc.burst_time_ms
        inter == IF proc.burst_time_ms > 0
                 THEN (IF est < INTERACTIVE_THRESHOLD_MS THEN base + 20 ELSE base)
                 ELSE proc.interactivity_score
    IN  [proc EXCEPT !.total_wait_time_ms = tw,
                     !.aging_boost = boost,
                     !.estimated_burst_ms = est,
                     !.interactivity_score = inter,
                     !.last_schedule_time_ms = t]

(* ---------------------- Virtual-Runtime Accountant --------------------- *)
\* delta_vruntime that rounds the quotient up
delta_vruntime_rounded_up(executed_time_ms, weight) ==
    LET executed_ns == executed_time_ms * NS_PER_MS
        rest == (CFS_WEIGHT_NICE_0 * (executed_ns % weight)) % weight
    IN  CFS_WEIGHT_NICE_0 * (executed_ns \div weight)
        + (CFS_WEIGHT_NICE_0 * (executed_ns % weight)) \div weight
        + (IF rest = 0 THEN 0 ELSE 1)

\* delta_vruntime that multiplies by the weight where the code divides
delta_vruntime_times_weight(executed_time_ms, weight) ==
    (executed_time_ms * (NS_PER_MS \div CFS_WEIGHT_NICE_0)) * weight

\* (executed_ns * 1024) / weight, truncating.  Computed as
\* 1024 * (executed_ns / weight) + (1024 * (executed_ns % weight)) / weight,
\* the same integer, so that no intermediate product leaves the model's
\* integer range; the 64-bit unsigned range of the source is never reached
\* by the runs considered here.
delta_vruntime(executed_time_ms, weight) ==
    LET executed_ns == executed_time_ms * NS_PER_MS
    IN  CFS_WEIGHT_NICE_0 * (executed_ns \div weight)
        + (CFS_WEIGHT_NICE_0 * (executed_ns % weight)) \div weight

\* update_vruntime with "=" in place of "+="
update_vruntime_assign(proc, executed_time_ms) ==
    delta_vruntime(executed_time_ms, proc.weight)

\* the new proc->vruntime_ns
update_vruntime(proc, executed_time_ms) ==
    proc.vruntime_ns + delta_vruntime(executed_time_ms, proc.weight)

\* the new scheduler.min_vruntime_ns
update_min_vruntime(minv, vr) ==
    IF vr < minv \/ minv = 0 THEN vr ELSE minv

\* the quotient an unsigned division by zero leaves on a machine where it
\* does not trap
DivByZeroQuotients == {0}

\* what a call of update_vruntime may do, for any int weight and an executed
\* time that is not negative.  There is no check of the arguments.
\*   weight > 0: the quotient is added;
\*   weight < 0: the int is converted to unsigned long, 2^64 + weight, which
\*               is above executed_ns * 1024, so the quotient is 0;
\*   weight = 0: division by zero, undefined: the process is killed by the
\*               trap, or the call returns with some quotient added.
update_vruntime_results(proc, executed_time_ms) ==
    IF proc.weight > 0
    THEN {[killed |-> FALSE, vruntime_ns |-> update_vruntime(proc, executed_time_ms)]}
    ELSE IF proc.weight < 0
    THEN {[killed |-> FALSE, vruntime_ns |-> proc.vruntime_ns]}
    ELSE {[killed |-> TRUE, vruntime_ns |-> proc.vruntime_ns]}
         \cup {[killed |-> FALSE, vruntime_ns |-> proc.vruntime_ns + q] :
                   q \in DivByZeroQuotients}

(* ------------------------------- Selector ------------------------------ *)
\* not_arrived comparing the raw clock reading, not the elapsed time
not_arrived_raw_clock(t, start, proc) == t < proc.arrival_time_ms

\* not_arrived that lets every task through
not_arrived_never(t, start, proc) == FALSE

\* "elapsed < proc->arrival_time_ms", the test of the selector and of the loop
not_arrived(t, start, proc) == t - start < proc.arrival_time_ms

\* schedulable that only excludes the running task
schedulable_not_running(proc) == proc.state # "PROC_RUNNING"

schedulable(proc) == proc.state \in {"PROC_READY", "PROC_STOPPED"}

\* score_of without the vruntime term
score_of_without_vruntime(proc) ==
    0
    - proc.aging_boost * AGING_SCORE_NS
    - (IF proc.estimated_burst_ms < INTERACTIVE_THRESHOLD_MS THEN INTERACTIVE_BONUS_NS ELSE 0)
    + (IF proc.remaining_time_ms > LONG_JOB_REMAINING_MS THEN LONG_JOB_PENALTY_NS ELSE 0)

score_of(proc) ==
    proc.vruntime_ns
    - proc.aging_boost * AGING_SCORE_NS
    - (IF proc.estimated_burst_ms < INTERACTIVE_THRESHOLD_MS THEN INTERACTIVE_BONUS_NS ELSE 0)
    + (IF proc.remaining_time_ms > LONG_JOB_REMAINING_MS THEN LONG_JOB_PENALTY_NS ELSE 0)

\* better with "<=" in place of "<"
better_or_equal(score, best_idx, best_score) == best_idx = -1 \/ score <= best_score

\* "score < best_score"; best_score starts at LLONG_MAX, above every score,
\* which is the case exactly while best_idx is still -1
better(score, best_idx, best_score) == best_idx = -1 \/ score < best_score

\* the for loop of select_next_process_cfs_heuristic from index i on
RECURSIVE select_from(_, _, _, _, _, _)
select_from(i, ps, best_idx, best_score, t, start) ==
    IF i \notin DOMAIN ps
    THEN [procs |-> ps, best_idx |-> best_idx]
    ELSE IF ~schedulable(ps[i]) \/ not_arrived(t, start, ps[i])
    THEN select_from(i + 1, ps, best_idx, best_score, t, start)
    ELSE LET p == compute_heuristic_metrics(ps[i], t)
             score == score_of(p)
             ps2 == [ps EXCEPT ![i] = p]
         IN  IF better(score, best_idx, best_score)
             THEN select_from(i + 1, ps2, i, score, t, start)
             ELSE select_from(i + 1, ps2, best_idx, best_score, t, start)

select_next_process_cfs_heuristic(ps, t, start) ==
    select_from(0, ps, -1, 0, t, start)

(* --------------------------- Execution Loop ---------------------------- *)
\* time_slice_for without the MIN_GRANULARITY_MS floor
time_slice_unfloored(weight) == (TIME_QUANTUM_MS * CFS_WEIGHT_NICE_0) \div weight

time_slice_for(weight) ==
    LET ts == (TIME_QUANTUM_MS * CFS_WEIGHT_NICE_0) \div weight
    IN  IF ts < MIN_GRANULARITY_MS THEN MIN_GRANULARITY_MS ELSE ts

\* set_stopped that sends the signal but forgets the state
set_stopped_lost(ps, i) == ps

\* set_stopped that puts the task back to PROC_READY
set_stopped_ready(ps, i) == [ps EXCEPT ![i].state = "PROC_READY"]

\* prev->state = PROC_STOPPED / proc->state = PROC_STOPPED
set_stopped(ps, i) == [ps EXCEPT ![i].state = "PROC_STOPPED"]

\* remaining_after that charges the executed time twice
remaining_after_double(remaining, executed_time) ==
    IF remaining - 2 * executed_time <= 0 THEN 0 ELSE remaining - 2 * executed_time

\* remaining_after without the floor at 0
remaining_after_unfloored(remaining, executed_time) == remaining - executed_time

\* remaining_after that never charges the slice
remaining_after_uncharged(remaining, executed_time) == remaining

\* remaining_time_ms after a slice of executed_time ms
remaining_after(remaining, executed_time) ==
    IF remaining - executed_time <= 0 THEN 0 ELSE remaining - executed_time

\* main: one record per workload row, after initialize_scheduler
new_process_weighing(w, start, wt) ==
    [ arrival_time_ms |-> w[1],
      burst_time_ms |-> w[2],
      remaining_time_ms |-> w[2],
      nice_value |-> w[3],
      weight |-> wt,
      vruntime_ns |-> 0,
      state |-> "PROC_READY",
      first_run |-> 0,
      estimated_burst_ms |-> 0,
      aging_boost |-> 0,
      interactivity_score |-> 100,
      last_schedule_time_ms |-> start,
      total_wait_time_ms |-> 0,
      start_time_ms |-> 0,
      finish_time_ms |-> 0,
      wait_time_ms |-> 0,
      response_time_ms |-> 0,
      time_slice_remaining_ms |-> 0 ]

\* the record of a workload row whose nice value is inside the table
new_process(w, start) == new_process_weighing(w, start, nice_to_weight(w[3]))

\* the state main leaves for a task list out of W, when its forks and sleeps
\* took one of the overruns in D beyond the nominal 1 ms per task, at
\* position p
InitAt(W, D, p) ==
    \E wl \in W, d \in D :
        /\ processes = [i \in 0 .. Len(wl) - 1 |-> new_process(wl[i + 1], StartClock)]
        /\ child = [i \in 0 .. Len(wl) - 1 |-> "stopped"]
        /\ scheduler_start_time_ms = StartClock
        /\ now = StartClock + Len(wl) * SETUP_SLEEP_MS + d
        /\ current_process_idx = -1
        /\ min_vruntime_ns = 0
        /\ completed_count = 0
        /\ pc = p
        /\ current_time = 0
        /\ next_idx = -1
        /\ drift = 0

\* the state main hands to schedule_processes, for a task list out of W
InitWith(W) == InitAt(W, {0}, "loop")

Init == InitWith(Workloads)

FairInit == InitWith(FairWorkloads)

\* while condition true; current_time = get_time_ms()
LoopTop ==
    /\ pc = "loop"
    /\ completed_count < num_processes
    /\ current_time' = now
    /\ \E d \in Overruns : now' = now + d /\ drift' = drift + d
    /\ pc' = "select"
    /\ UNCHANGED <<processes, current_process_idx, min_vruntime_ns,
                   scheduler_start_time_ms, completed_count, next_idx, child>>

\* while condition false
LoopExit ==
    /\ pc = "loop"
    /\ completed_count >= num_processes
    /\ pc' = "done"
    /\ UNCHANGED <<drift, processes, current_process_idx, min_vruntime_ns,
                   scheduler_start_time_ms, completed_count, now, current_time,
                   next_idx, child>>

\* next_idx = select_next_process_cfs_heuristic()
Select ==
    /\ pc = "select"
    /\ LET r == select_next_process_cfs_heuristic(processes, now, scheduler_start_time_ms)
       IN  /\ processes' = r.procs
           /\ next_idx' = r.best_idx
    /\ pc' = "selected"
    /\ UNCHANGED <<drift, current_process_idx, min_vruntime_ns, scheduler_start_time_ms,
                   completed_count, now, current_time, child>>

\* next_idx == -1: usleep(SCHEDULER_TICK_US); continue
Idle ==
    /\ pc = "selected"
    /\ next_idx = -1
    /\ \E d \in Overruns : now' = now + SCHEDULER_TICK_MS + d /\ drift' = drift + d
    /\ pc' = "loop"
    /\ UNCHANGED <<processes, current_process_idx, min_vruntime_ns,
                   scheduler_start_time_ms, completed_count, current_time,
                   next_idx, child>>

\* the loop's own arrival test fails: usleep(SCHEDULER_TICK_US); continue
NotArrived ==
    /\ pc = "selected"
    /\ next_idx # -1
    /\ not_arrived(current_time, scheduler_start_time_ms, processes[next_idx])
    /\ \E d \in Overruns : now' = now + SCHEDULER_TICK_MS + d /\ drift' = drift + d
    /\ pc' = "loop"
    /\ UNCHANGED <<processes, current_process_idx, min_vruntime_ns,
                   scheduler_start_time_ms, completed_count, current_time,
                   next_idx, child>>

\* switch_in that starts the task's wait afresh
switch_in_resetting_wait(proc, t, start) ==
    IF schedulable(proc)
    THEN LET p1 == IF proc.first_run = 0
                   THEN [proc EXCEPT !.first_run = 1,
                                     !.response_time_ms = t - start - proc.arrival_time_ms,
                                     !.start_time_ms = t]
                   ELSE proc
         IN  [p1 EXCEPT !.state = "PROC_RUNNING",
                        !.total_wait_time_ms = 0,
                        !.time_slice_remaining_ms = time_slice_for(proc.weight)]
    ELSE proc

\* switch_in that also moves last_schedule_time_ms to the switch
switch_in_touching(proc, t, start) ==
    IF schedulable(proc)
    THEN LET p1 == IF proc.first_run = 0
                   THEN [proc EXCEPT !.first_run = 1,
                                     !.response_time_ms = t - start - proc.arrival_time_ms,
                                     !.start_time_ms = t]
                   ELSE proc
         IN  [p1 EXCEPT !.state = "PROC_RUNNING",
                        !.last_schedule_time_ms = t,
                        !.time_slice_remaining_ms = time_slice_for(proc.weight)]
    ELSE proc

\* switch_in that stamps start and response time at every switch
switch_in_restamping(proc, t, start) ==
    IF schedulable(proc)
    THEN [proc EXCEPT !.first_run = 1,
                      !.response_time_ms = t - start - proc.arrival_time_ms,
                      !.start_time_ms = t,
                      !.state = "PROC_RUNNING",
                      !.time_slice_remaining_ms = time_slice_for(proc.weight)]
    ELSE proc

\* the selected task after "if (proc->state == READY || STOPPED) { ... }"
switch_in(proc, t, start) ==
    IF schedulable(proc)
    THEN LET p1 == IF proc.first_run = 0
                   THEN [proc EXCEPT !.first_run = 1,
                                     !.response_time_ms = t - start - proc.arrival_time_ms,
                                     !.start_time_ms = t]
                   ELSE proc
         IN  [p1 EXCEPT !.state = "PROC_RUNNING",
                        !.time_slice_remaining_ms = time_slice_for(proc.weight)]
    ELSE proc

\* context switch: suspend the previous task, resume the selected one
ContextSwitch ==
    /\ pc = "selected"
    /\ next_idx # -1
    /\ ~not_arrived(current_time, scheduler_start_time_ms, processes[next_idx])
    /\ LET prev == current_process_idx
           stopPrev == /\ prev # -1
                       /\ prev # next_idx
                       /\ processes[prev].state = "PROC_RUNNING"
           ps1 == IF stopPrev THEN set_stopped(processes, prev) ELSE processes
           ch1 == IF stopPrev THEN stop_process(child, prev) ELSE child
           in == schedulable(ps1[next_idx])
       IN  /\ processes' = [ps1 EXCEPT ![next_idx] =
                               switch_in(ps1[next_idx], current_time, scheduler_start_time_ms)]
           /\ child' = IF in THEN continue_process(ch1, next_idx) ELSE ch1
           /\ current_process_idx' = IF in THEN next_idx ELSE current_process_idx
    /\ pc' = "exec"
    /\ UNCHANGED <<drift, min_vruntime_ns, scheduler_start_time_ms, completed_count, now,
                   current_time, next_idx>>

\* usleep(time_slice), measure executed_time, charge it
RunSlice ==
    /\ pc = "exec"
    /\ \E d \in Overruns :
         LET proc == processes[next_idx]
             executed_time == proc.time_slice_remaining_ms + d
             vr == update_vruntime(proc, executed_time)
         IN  /\ now' = now + executed_time
             /\ processes' = [processes EXCEPT ![next_idx] =
                    [proc EXCEPT !.remaining_time_ms =
                                     remaining_after(proc.remaining_time_ms, executed_time),
                                 !.vruntime_ns = vr]]
             /\ min_vruntime_ns' = update_min_vruntime(min_vruntime_ns, vr)
             /\ drift' = drift + d
    /\ pc' = "poll"
    /\ UNCHANGED <<current_process_idx, scheduler_start_time_ms, completed_count,
                   current_time, next_idx, child>>

\* is_finished with "&&" in place of "||"
is_finished_both(proc, ch) == ch = "zombie" /\ proc.remaining_time_ms = 0

\* is_finished that ignores the result of waitpid
is_finished_burst_only(proc, ch) == proc.remaining_time_ms = 0

\* result == proc->pid || proc->remaining_time_ms == 0
is_finished(proc, ch) == ch = "zombie" \/ proc.remaining_time_ms = 0

\* complete that stamps the times but leaves the state
complete_still_running(proc, t, start) ==
    [proc EXCEPT !.finish_time_ms = t,
                 !.wait_time_ms = (t - start - proc.arrival_time_ms) - proc.burst_time_ms]

\* the task record after the completion branch
complete(proc, t, start) ==
    [proc EXCEPT !.state = "PROC_COMPLETED",
                 !.finish_time_ms = t,
                 !.wait_time_ms = (t - start - proc.arrival_time_ms) - proc.burst_time_ms]

\* PollComplete without "scheduler.completed_count++"
PollComplete_uncounted ==
    /\ pc = "poll"
    /\ is_finished(processes[next_idx], child[next_idx])
    /\ processes' = [processes EXCEPT ![next_idx] =
                        complete(processes[next_idx], now, scheduler_start_time_ms)]
    /\ child' = IF child[next_idx] = "zombie"
                THEN [child EXCEPT ![next_idx] = "reaped"] ELSE child
    /\ pc' = "loop"
    /\ UNCHANGED <<drift, current_process_idx, min_vruntime_ns, scheduler_start_time_ms,
                   completed_count, now, current_time, next_idx>>

\* waitpid(WNOHANG) and the completion branch
PollComplete ==
    /\ pc = "poll"
    /\ is_finished(processes[next_idx], child[next_idx])
    /\ processes' = [processes EXCEPT ![next_idx] =
                        complete(processes[next_idx], now, scheduler_start_time_ms)]
    /\ completed_count' = completed_count + 1
    /\ child' = IF child[next_idx] = "zombie"
                THEN [child EXCEPT ![next_idx] = "reaped"] ELSE child
    /\ pc' = "loop"
    /\ UNCHANGED <<drift, current_process_idx, min_vruntime_ns, scheduler_start_time_ms,
                   now, current_time, next_idx>>

\* PollStop with a blocking waitpid: the loop waits until the child has exited
PollStop_blocking ==
    /\ pc = "poll"
    /\ ~is_finished(processes[next_idx], child[next_idx])
    /\ child[next_idx] = "zombie"
    /\ UNCHANGED vars

\* waitpid(WNOHANG) and the else branch: stop the task
PollStop ==
    /\ pc = "poll"
    /\ ~is_finished(processes[next_idx], child[next_idx])
    /\ processes' = set_stopped(processes, next_idx)
    /\ child' = stop_process(child, next_idx)
    /\ pc' = "loop"
    /\ UNCHANGED <<drift, current_process_idx, min_vruntime_ns, scheduler_start_time_ms,
                   completed_count, now, current_time, next_idx>>

\* the forked process of task i ends (its busy loop is over, or it is killed)
ChildExit(i) ==
    /\ pc # "done"
    /\ child[i] \in {"stopped", "running"}
    /\ Cardinality({j \in Idx : child[j] \in {"zombie", "reaped"}}) < MaxExits
    /\ child' = [child EXCEPT ![i] = "zombie"]
    /\ UNCHANGED <<drift, processes, current_process_idx, min_vruntime_ns,
                   scheduler_start_time_ms, completed_count, now, pc, current_time,
                   next_idx>>

LoopStep ==
    \/ LoopTop
    \/ LoopExit
    \/ Select
    \/ Idle
    \/ NotArrived
    \/ ContextSwitch
    \/ RunSlice
    \/ PollComplete
    \/ PollStop

Next ==
    \/ LoopStep
    \/ \E i \in Idx : ChildExit(i)

Spec == Init /\ [][Next]_vars

\* the loop is the program's single thread: it keeps taking steps
FairSpec == FairInit /\ [][Next]_vars /\ WF_vars(LoopStep)

(* --------------------------- main's workload --------------------------- *)
\* the six rows of main's table
MainWorkload ==
    << <<0, 60, 0>>, <<10, 20, -5>>, <<15, 80, 5>>,
       <<20, 30, 0>>, <<30, 15, -10>>, <<35, 50, 0>> >>

\* main's setup took its nominal time, or overran by MaxSetupOverrun
MainInit == InitAt({MainWorkload}, {0, MaxSetupOverrun}, "loop")

\* the loop, and the children of tasks 2 and 4 ending on their own.  With
\* this table select always finds a task that has arrived (MainNeverIdles),
\* so the two branches that sleep one tick and continue cannot be taken.
MainNext ==
    \/ LoopTop
    \/ LoopExit
    \/ Select
    \/ ContextSwitch
    \/ RunSlice
    \/ PollComplete
    \/ PollStop
    \/ \E i \in Idx \cap {2, 4} : ChildExit(i)

\* neither "next_idx == -1" nor the loop's own arrival test holds
MainNeverIdles ==
    pc = "selected" =>
        /\ next_idx # -1
        /\ ~not_arrived(current_time, scheduler_start_time_ms, processes[next_idx])

MainSpec == MainInit /\ [][MainNext]_vars

(* ----------------------- registration on its own ---------------------- *)
\* nice values given to the registration loop, inside and outside -20 .. 19
NiceInputs == (0 - NiceSpan) .. (NiceSpan - 1)

\* after initialize_scheduler, before main's loop over the workload
RegisterInit ==
    /\ processes = [i \in {} |-> 0]
    /\ child = [i \in {} |-> "stopped"]
    /\ scheduler_start_time_ms = StartClock
    /\ now = StartClock
    /\ current_process_idx = -1
    /\ min_vruntime_ns = 0
    /\ completed_count = 0
    /\ pc = "register"
    /\ current_time = 0
    /\ next_idx = -1
    /\ drift = 0

\* one iteration of main's loop: fill the record, with the weight that
\* nice_to_weight returns for the row's nice value, fork, sleep, stop
Register ==
    /\ pc = "register"
    /\ num_processes < MaxRegistered
    /\ \E nice \in NiceInputs :
         \E wt \in nice_to_weight_results(nice) :
             processes' = [i \in 0 .. num_processes |->
                              IF i < num_processes
                              THEN processes[i]
                              ELSE new_process_weighing(<<0, 60, nice>>,
                                                        scheduler_start_time_ms, wt)]
    /\ child' = [i \in 0 .. num_processes |-> "stopped"]
    /\ now' = now + SETUP_SLEEP_MS
    /\ UNCHANGED <<current_process_idx, min_vruntime_ns, scheduler_start_time_ms,
                   completed_count, pc, current_time, next_idx, drift>>

RegisterSpec == RegisterInit /\ [][Register]_vars

(* ------------------------ the Accountant on its own -------------------- *)
\* the nice values whose weight is an entry of the table
DefinedNice == -20 .. (Len(weights) - 21)

\* two tasks of equal burst, each with a nice value inside the table
AccountWorkloads ==
    { <<(<<0, 60, a>>), (<<0, 60, b>>)>> : a \in DefinedNice, b \in DefinedNice }

AccountInit == InitAt(AccountWorkloads, {0}, "account")

\* the charge at the end of a slice, for a task not charged before:
\* remaining_time_ms -= executed_time, floored at 0; update_vruntime
Account(i) ==
    /\ pc = "account"
    /\ processes[i].remaining_time_ms = processes[i].burst_time_ms
    /\ \E executed_time \in 0 .. MaxExecMs :
         \E r \in update_vruntime_results(processes[i], executed_time) :
             LET proc == processes[i]
             IN  /\ now' = now + executed_time
                 /\ processes' = [processes EXCEPT ![i] =
                        [proc EXCEPT !.remaining_time_ms =
                                         remaining_after(proc.remaining_time_ms,
                                                         executed_time),
                                     !.vruntime_ns = r.vruntime_ns]]
                 /\ min_vruntime_ns' =
                        IF r.killed THEN min_vruntime_ns
                        ELSE update_min_vruntime(min_vruntime_ns, r.vruntime_ns)
                 /\ pc' = IF r.killed THEN "killed" ELSE pc
    /\ UNCHANGED <<current_process_idx, scheduler_start_time_ms, completed_count,
                   current_time, next_idx, child, drift>>

AccountNext == \E i \in Idx : Account(i)

AccountSpec == AccountInit /\ [][AccountNext]_vars

(* ------------- the Accountant on weights from the table's end ---------- *)
\* the last nice value whose weight the table defines, and those above it
EdgeNice == (Len(weights) - 21) .. (NiceSpan - 1)

\* main has registered one task whose nice value is in EdgeNice, with the
\* weight nice_to_weight returned for it
EdgeInit ==
    \E nice \in EdgeNice :
        \E wt \in nice_to_weight_results(nice) :
            /\ processes = [i \in {0} |->
                               new_process_weighing(<<0, 60, nice>>, StartClock, wt)]
            /\ child = [i \in {0} |-> "stopped"]
            /\ scheduler_start_time_ms = StartClock
            /\ now = StartClock + SETUP_SLEEP_MS
            /\ current_process_idx = -1
            /\ min_vruntime_ns = 0
            /\ completed_count = 0
            /\ pc = "account"
            /\ current_time = 0
            /\ next_idx = -1
            /\ drift = 0

EdgeSpec == EdgeInit /\ [][AccountNext]_vars

TypeOK ==
    /\ pc \in {"loop", "select", "selected", "exec", "poll", "done",
               "register", "account", "killed"}
    /\ next_idx \in {-1} \cup Idx
    /\ current_process_idx \in {-1} \cup Idx
    /\ completed_count \in 0 .. num_processes
    /\ \A i \in Idx : processes[i].state \in
           {"PROC_READY", "PROC_RUNNING", "PROC_STOPPED", "PROC_COMPLETED"}

(* ------------------------------- claims -------------------------------- *)
StateOf(i) == processes[i].state
Running == { i \in Idx : StateOf(i) = "PROC_RUNNING" }
\* elapsed time since scheduler start, as the clock reads now
Elapsed == now - scheduler_start_time_ms

\* C1: in every reachable state of the execution loop at most one task has
\* state Running.
C1_AtMostOneRunning == Cardinality(Running) <= 1

\* a task is Running while another one, already run, is Stopped
C1_Witness ==
    \E i, j \in Idx :
        /\ i # j
        /\ StateOf(i) = "PROC_RUNNING"
        /\ StateOf(j) = "PROC_STOPPED"

\* C2: a task is never Running before the elapsed time since scheduler start
\* has reached its arrival_time; the clock reading the loop took for the switch
\* (which is response_time's and start_time's reading) had reached it too.
C2_RunningOnlyAfterArrival ==
    \A i \in Idx :
        StateOf(i) = "PROC_RUNNING" =>
            /\ Elapsed >= processes[i].arrival_time_ms
            /\ processes[i].first_run = 1
            /\ processes[i].start_time_ms - scheduler_start_time_ms
                   >= processes[i].arrival_time_ms

\* a task that arrives after scheduler start has been switched in, in a run in
\* which the loop had to wait for an arrival
C2_Witness ==
    \E i \in Idx :
        /\ StateOf(i) = "PROC_RUNNING"
        /\ processes[i].arrival_time_ms >= 100
        /\ processes[i].response_time_ms <= 1

\* C3: with the loop taking its steps, every run of a workload of positive
\* bursts ends: completed_count reaches the task count and the loop exits.
C3_LoopTerminates == <>(pc = "done" /\ completed_count = num_processes)

\* the loop has exited after completing two tasks
C3_Witness ==
    /\ pc = "done"
    /\ num_processes = 2
    /\ completed_count = 2
    /\ \A i \in Idx : processes[i].remaining_time_ms = 0

\* C4: no step decreases a vruntime, and the only vruntime a step changes is
\* that of the task that is Running during the slice of the current iteration.
C4_VruntimeMonotone ==
    [][\A i \in Idx :
          /\ processes'[i].vruntime_ns >= processes[i].vruntime_ns
          /\ processes'[i].vruntime_ns # processes[i].vruntime_ns =>
                 /\ pc = "exec"
                 /\ i = next_idx
                 /\ StateOf(i) = "PROC_RUNNING"]_vars

\* two tasks have both been charged, one of them more than one slice
C4_Witness ==
    \E i, j \in Idx :
        /\ i # j
        /\ processes[i].vruntime_ns > 0
        /\ processes[j].vruntime_ns > processes[i].vruntime_ns
        /\ StateOf(j) = "PROC_STOPPED"

LifecycleMoves ==
    { <<"PROC_READY", "PROC_RUNNING">>, <<"PROC_RUNNING", "PROC_STOPPED">>,
      <<"PROC_STOPPED", "PROC_RUNNING">>, <<"PROC_RUNNING", "PROC_COMPLETED">> }

\* C5: a task's state only moves Ready -> Running, Running -> Stopped,
\* Stopped -> Running, Running -> Completed; so Ready is never re-entered,
\* Completed is never left and is entered from Running only.
C5_Lifecycle ==
    [][\A i \in Idx :
          processes'[i].state # processes[i].state =>
              <<processes[i].state, processes'[i].state>> \in LifecycleMoves]_vars

\* one task is Completed, having been stopped and resumed on the way, and
\* another is Stopped
C5_Witness ==
    \E i, j \in Idx :
        /\ StateOf(i) = "PROC_COMPLETED"
        /\ processes[i].remaining_time_ms = 0
        /\ processes[i].burst_time_ms > 2 * processes[i].time_slice_remaining_ms + 2
        /\ StateOf(j) = "PROC_STOPPED"

\* C6: the step that ends an iteration turns the task that ran the slice into
\* Completed exactly when the poll saw its process exited or its
\* burst_remaining is 0, and then adds exactly 1 to completed_count; otherwise
\* the task becomes Stopped (eligible again) and completed_count stays.  No
\* other step changes completed_count, and no task is counted twice.
C6_CompletionRule ==
    [][/\ (pc = "poll" /\ pc' = "loop") =>
             LET exited == child[next_idx] = "zombie"
                 spent == processes[next_idx].remaining_time_ms = 0
             IN  /\ StateOf(next_idx) = "PROC_RUNNING"
                 /\ processes'[next_idx].state = "PROC_COMPLETED" <=> (exited \/ spent)
                 /\ processes'[next_idx].state = "PROC_STOPPED" <=> ~(exited \/ spent)
                 /\ completed_count' =
                        completed_count + (IF exited \/ spent THEN 1 ELSE 0)
       /\ completed_count' # completed_count => (pc = "poll" /\ pc' = "loop")
       /\ \A i \in Idx :
             processes'[i].state = "PROC_COMPLETED" /\ StateOf(i) # "PROC_COMPLETED"
                 => (i = next_idx /\ pc = "poll" /\ completed_count' = completed_count + 1)
       /\ \A i \in Idx :
             StateOf(i) = "PROC_COMPLETED" => processes'[i].state = "PROC_COMPLETED"
      ]_vars

\* a task was completed because its process had exited, with burst left, while
\* another task was stopped with burst left
C6_Witness ==
    \E i, j \in Idx :
        /\ StateOf(i) = "PROC_COMPLETED"
        /\ processes[i].remaining_time_ms > 0
        /\ child[i] = "reaped"
        /\ StateOf(j) = "PROC_STOPPED"
        /\ processes[j].remaining_time_ms > 0
        /\ completed_count = 1

\* a task passes both filters of the selector at the current clock reading
Eligible(i) ==
    /\ StateOf(i) \in {"PROC_READY", "PROC_STOPPED"}
    /\ Elapsed >= processes[i].arrival_time_ms

\* the score as the claim gives it
ClaimScore(i) ==
    processes[i].vruntime_ns
    - processes[i].aging_boost * 100000000
    - (IF processes[i].estimated_burst_ms < 50 THEN 50000000 ELSE 0)
    + (IF processes[i].remaining_time_ms > 100 THEN 10000000 ELSE 0)

\* C7: when some task is eligible, select returns the eligible task of lowest
\* score, and among several of lowest score the one of smallest index.
C7_SelectsLowestScore ==
    (pc = "selected" /\ \E i \in Idx : Eligible(i)) =>
        /\ next_idx \in Idx
        /\ Eligible(next_idx)
        /\ \A j \in Idx :
              Eligible(j) =>
                  /\ ClaimScore(next_idx) <= ClaimScore(j)
                  /\ ClaimScore(j) = ClaimScore(next_idx) => next_idx <= j

\* select has just returned the first of two eligible tasks of equal score,
\* both of which have run before
C7_Witness ==
    /\ pc = "selected"
    /\ \E i, j \in Idx :
          /\ i < j
          /\ next_idx = i
          /\ Eligible(i)
          /\ Eligible(j)
          /\ ClaimScore(i) = ClaimScore(j)
          /\ processes[i].vruntime_ns > 0

\* C8: select returns only a task that is Ready or Stopped and has arrived by
\* the selector's clock reading, never a Completed one, and returns -1 exactly
\* when no task passes both filters.
C8_SelectReturnsEligible ==
    pc = "selected" =>
        /\ next_idx # -1 =>
              /\ next_idx \in Idx
              /\ StateOf(next_idx) \in {"PROC_READY", "PROC_STOPPED"}
              /\ StateOf(next_idx) # "PROC_COMPLETED"
              /\ Elapsed >= processes[next_idx].arrival_time_ms
        /\ next_idx = -1 <=> ~(\E i \in Idx : Eligible(i))

\* select has returned the second task while the first, which ran less, is
\* Completed
C8_Witness ==
    /\ pc = "selected"
    /\ next_idx # -1
    /\ \E j \in Idx : j < next_idx /\ StateOf(j) = "PROC_COMPLETED"
                      /\ processes[j].vruntime_ns < processes[next_idx].vruntime_ns

\* select has returned -1 with one task Completed and the other not yet arrived
C8_WitnessNone ==
    /\ pc = "selected"
    /\ next_idx = -1
    /\ \E i, j \in Idx :
          /\ StateOf(i) = "PROC_COMPLETED"
          /\ StateOf(j) = "PROC_READY"
          /\ Elapsed < processes[j].arrival_time_ms

\* C9: in every reachable state every task's aging_boost is in 0 .. 10.
C9_AgingBoostRange ==
    \A i \in Idx : processes[i].aging_boost >= 0 /\ processes[i].aging_boost <= 10

\* a task whose total wait, unclamped, would give a boost of 11 or more
C9_Witness ==
    \E i \in Idx :
        /\ processes[i].total_wait_time_ms >= 210
        /\ processes[i].aging_boost = 10

\* task i is evaluated by compute_heuristic_metrics in this step
Evaluated(i) == pc = "select" /\ pc' = "selected" /\ Eligible(i)

\* C10: a task whose total_wait exceeds 100 ms has aging_boost > 0 after its
\* next evaluation by compute_heuristic_metrics.
C10_AgingAfterThreshold ==
    [][\A i \in Idx :
          (processes[i].total_wait_time_ms > 100 /\ Evaluated(i))
              => processes'[i].aging_boost > 0]_vars

\* C16: burst_remaining is never negative and never increases; the only step
\* that changes it is the slice, which subtracts the measured elapsed time
\* and floors the result at 0.
C16_RemainingMonotone ==
    [][\A i \in Idx :
          /\ processes[i].remaining_time_ms >= 0
          /\ processes'[i].remaining_time_ms >= 0
          /\ processes'[i].remaining_time_ms <= processes[i].remaining_time_ms
          /\ processes'[i].remaining_time_ms # processes[i].remaining_time_ms =>
                 /\ pc = "exec"
                 /\ i = next_idx
          /\ (pc = "exec" /\ pc' = "poll" /\ i = next_idx) =>
                 processes'[i].remaining_time_ms =
                     (IF processes[i].remaining_time_ms - (now' - now) < 0
                      THEN 0
                      ELSE processes[i].remaining_time_ms - (now' - now))]_vars

\* a slice measured longer than what was left of the burst, floored at 0
C16_Witness ==
    \E i \in Idx :
        /\ pc = "poll"
        /\ i = next_idx
        /\ processes[i].remaining_time_ms = 0
        /\ processes[i].burst_time_ms = 80
        /\ processes[i].vruntime_ns > delta_vruntime(80, processes[i].weight)

\* C17: suspending a task that is already Stopped changes neither its
\* lifecycle state nor its process nor anything else, and suspending twice
\* gives what suspending once gives.
C17_SuspendIdempotent ==
    \A i \in Idx :
        StateOf(i) = "PROC_STOPPED" =>
            /\ stop_process(child, i) = child
            /\ set_stopped(processes, i) = processes
            /\ stop_process(stop_process(child, i), i) = stop_process(child, i)
            /\ set_stopped(set_stopped(processes, i), i) = set_stopped(processes, i)

\* a task has been suspended by the loop and its process is stopped
C17_Witness ==
    \E i \in Idx :
        /\ StateOf(i) = "PROC_STOPPED"
        /\ child[i] = "stopped"
        /\ processes[i].first_run = 1
        /\ pc = "loop"

\* the score without its aging term
ScoreWithoutAging(i) ==
    processes[i].vruntime_ns
    - (IF processes[i].estimated_burst_ms < 50 THEN 50000000 ELSE 0)
    + (IF processes[i].remaining_time_ms > 100 THEN 10000000 ELSE 0)

C19_MinVruntimeIsFloor ==
    pc = "poll" =>
        \A i \in Idx :
            StateOf(i) # "PROC_COMPLETED" => min_vruntime_ns <= processes[i].vruntime_ns

\* C20: a child that has exited leaves its task's state alone until the task
\* is selected; the iteration that selects it ends with the task Completed,
\* whatever is left of its burst; no step but the task's own switch-in and
\* poll changes its state, and a child's exit changes no task at all.
C20_ExitFoundByPoll ==
    [][/\ \A i \in Idx :
             (child[i] = "zombie" /\ StateOf(i) # "PROC_COMPLETED") =>
                 /\ processes'[i].state # StateOf(i) =>
                        /\ i = next_idx
                        /\ \/ (pc = "selected" /\ processes'[i].state = "PROC_RUNNING")
                           \/ (pc = "poll" /\ processes'[i].state = "PROC_COMPLETED")
                 /\ (pc = "poll" /\ pc' = "loop" /\ i = next_idx) =>
                        /\ processes'[i].state = "PROC_COMPLETED"
                        /\ child'[i] = "reaped"
                        /\ completed_count' = completed_count + 1
                 /\ (pc = "select" /\ pc' = "selected"
                         /\ StateOf(i) \in {"PROC_READY", "PROC_STOPPED"}
                         /\ Elapsed >= processes[i].arrival_time_ms
                         /\ \A j \in Idx \ {i} : ~Eligible(j)) => next_idx' = i
       /\ child' # child /\ pc' = pc => processes' = processes
      ]_vars

\* a task whose child exited before the task was ever selected has been
\* completed by the poll with its whole burst but one slice left, while
\* the other task is untouched
C20_Witness ==
    \E i, j \in Idx :
        /\ i # j
        /\ StateOf(i) = "PROC_COMPLETED"
        /\ child[i] = "reaped"
        /\ processes[i].remaining_time_ms > 0
        /\ processes[i].finish_time_ms - processes[i].start_time_ms
               <= processes[i].time_slice_remaining_ms + 1
        /\ StateOf(j) = "PROC_READY"
        /\ child[j] = "stopped"

\* executed_ns * 1024 / weight, in 32-bit steps
ClaimDelta(executed_ms, w) ==
    ((executed_ms * 1000000) \div w) * 1024
    + (((executed_ms * 1000000) % w) * 1024) \div w

\* the time charged to a task that has been charged once
ChargedMs(i) == processes[i].burst_time_ms - processes[i].remaining_time_ms

\* C11: of two tasks with different weights charged for the same executed
\* time, the one with the larger weight gets the strictly smaller vruntime
\* delta, and each delta is executed_ns * 1024 / weight.
C11_HeavierAdvancesLess ==
    \A i, j \in Idx :
        (/\ ChargedMs(i) > 0
         /\ ChargedMs(j) = ChargedMs(i)
         /\ processes[i].weight > processes[j].weight) =>
            /\ processes[i].vruntime_ns < processes[j].vruntime_ns
            /\ processes[i].vruntime_ns = ClaimDelta(ChargedMs(i), processes[i].weight)
            /\ processes[j].vruntime_ns = ClaimDelta(ChargedMs(j), processes[j].weight)

\* the two lightest neighbours of the table charged for 1 ms each
C11_Witness ==
    \E i, j \in Idx :
        /\ ChargedMs(i) = 1
        /\ ChargedMs(j) = 1
        /\ processes[i].weight = 29
        /\ processes[j].weight = 23
        /\ processes[i].vruntime_ns > 0

\* the standard CFS table of 40 weights, for nice -20 .. 19
ReferenceWeights ==
    << 88761, 71755, 56483, 46273, 36291, 29154, 23254, 18705, 14949, 11916,
       9548, 7620, 6100, 4904, 3906, 3121, 2501, 1991, 1586, 1277,
       1024, 820, 655, 526, 423, 335, 272, 215, 172, 137,
       110, 87, 70, 56, 45, 36, 29, 23, 18, 15 >>

\* the registered tasks whose nice value is one of the 40 canonical ones
Canonical == { i \in Idx : processes[i].nice_value \in -20 .. 19 }

\* C12: the weight registered for nice 0 is 1024, and of two registered tasks
\* with nice values a < b in -20 .. 19 the one with nice a has the strictly
\* larger weight.
C12_WeightStrictlyDecreasing ==
    /\ \A i \in Canonical : processes[i].nice_value = 0 => processes[i].weight = 1024
    /\ \A i, j \in Canonical :
          processes[i].nice_value < processes[j].nice_value =>
              processes[i].weight > processes[j].weight

\* C13: the weight registered for each nice value in -20 .. 19 is the entry
\* of the 40-entry reference table for that nice value.
C13_ReproducesReferenceTable ==
    \A i \in Canonical :
        processes[i].weight = ReferenceWeights[processes[i].nice_value + 21]

\* C14: a nice value below -20 gets the weight that nice -20 gets, a nice
\* value above 19 gets the weight that nice 19 gets, and each of these
\* weights is an entry of the weight table.
C14_ClampedToTable ==
    /\ \A i, j \in Idx :
          /\ (processes[i].nice_value < -20 /\ processes[j].nice_value = -20) =>
                 processes[i].weight = processes[j].weight
          /\ (processes[i].nice_value > 19 /\ processes[j].nice_value = 19) =>
                 processes[i].weight = processes[j].weight
    /\ \A i \in Idx :
          processes[i].nice_value \notin -20 .. 19 =>
              \E k \in 1 .. Len(ReferenceWeights) :
                  processes[i].weight = ReferenceWeights[k]

\* C15: in main's six-task workload, at every selection at which task 4 and
\* task 2 are both eligible, select does not return task 2.
C15_Task4AheadOfTask2 ==
    (pc = "selected" /\ Eligible(2) /\ Eligible(4)) => next_idx # 2

\* C15, amended: in main's six-task workload, at every selection at which
\* task 4 and task 2 are both eligible and task 2 has been charged for a
\* slice, select does not return task 2 and task 4 has the lower vruntime.
C15_Task4AheadOnceTask2Ran ==
    (pc = "selected" /\ Eligible(2) /\ Eligible(4) /\ processes[2].vruntime_ns > 0) =>
        /\ next_idx # 2
        /\ processes[4].vruntime_ns < processes[2].vruntime_ns

\* select returns task 4 while task 2, which has run, is eligible, and task 4
\* has itself been charged for a slice
C15_Witness ==
    /\ pc = "selected"
    /\ Eligible(2)
    /\ Eligible(4)
    /\ processes[2].vruntime_ns > 0
    /\ processes[4].vruntime_ns > 0
    /\ next_idx = 4

\* the tasks whose state is Completed, now and after the step
CompletedNow == { i \in Idx : processes[i].state = "PROC_COMPLETED" }
CompletedNext == { i \in Idx : processes'[i].state = "PROC_COMPLETED" }

\* C21: completed_count is the number of Completed tasks and is at most the
\* task count; the loop leaves its while exactly when every task is
\* Completed.
C21_CompletedCountExact ==
    [][/\ completed_count = Cardinality(CompletedNow)
       /\ completed_count' = Cardinality(CompletedNext)
       /\ completed_count' <= num_processes
       /\ (pc = "loop" /\ pc' = "done") => CompletedNow = Idx
       /\ (pc = "loop" /\ pc' # "loop" /\ CompletedNow = Idx) => pc' = "done"
       /\ (pc = "loop" /\ pc' # "loop" /\ CompletedNow # Idx) => pc' = "select"
      ]_vars

\* the loop has ended with two tasks Completed, one of them by its child's
\* exit and one by its burst
C21_Witness ==
    /\ pc = "done"
    /\ num_processes = 2
    /\ completed_count = 2
    /\ \E i, j \in Idx :
          /\ processes[i].remaining_time_ms > 0
          /\ processes[j].remaining_time_ms = 0
          /\ StateOf(i) = "PROC_COMPLETED"
          /\ StateOf(j) = "PROC_COMPLETED"

\* max(5, floor(10 * 1024 / weight))
ClaimSlice(w) == IF (10 * 1024) \div w < 5 THEN 5 ELSE (10 * 1024) \div w

\* C25: every switch-in stores the slice max(5, floor(10 * 1024 / weight));
\* stored slices are at least 5 ms, and of two tasks that have been switched
\* in the one with the larger weight does not have the longer slice.
C25_SliceFromWeight ==
    [][/\ \A i \in Idx :
             (StateOf(i) \in {"PROC_READY", "PROC_STOPPED"}
                  /\ processes'[i].state = "PROC_RUNNING") =>
                 /\ processes'[i].time_slice_remaining_ms = ClaimSlice(processes[i].weight)
                 /\ processes'[i].time_slice_remaining_ms >= 5
       /\ \A i, j \in Idx :
             (/\ processes'[i].first_run = 1
              /\ processes'[j].first_run = 1
              /\ processes'[i].weight > processes'[j].weight) =>
                 processes'[i].time_slice_remaining_ms
                     <= processes'[j].time_slice_remaining_ms
      ]_vars

\* two tasks have been switched in, one with the slice the floor gives and
\* one with a slice three times the quantum
C25_Witness ==
    \E i, j \in Idx :
        /\ processes[i].first_run = 1
        /\ processes[j].first_run = 1
        /\ processes[i].weight = 9548
        /\ processes[i].time_slice_remaining_ms = 5
        /\ processes[j].weight = 335
        /\ processes[j].time_slice_remaining_ms = 30

\* C26: when a task is Running current_process_idx is its index, and when no
\* task is Running current_process_idx designates no task.
C26_CurrentIndexIsRunning ==
    /\ \A i \in Idx : StateOf(i) = "PROC_RUNNING" => current_process_idx = i
    /\ Running = {} => current_process_idx = -1

\* max(burst_remaining / 4, 10)
ClaimSeed(i) ==
    IF processes[i].remaining_time_ms \div 4 < 10
    THEN 10
    ELSE processes[i].remaining_time_ms \div 4

C28_WaitAccumulates ==
    [][\A i \in Idx :
          /\ (pc = "select" /\ pc' = "selected" /\ Eligible(i)) =>
                 /\ processes'[i].total_wait_time_ms =
                        processes[i].total_wait_time_ms
                        + (IF now - processes[i].last_schedule_time_ms > 0
                           THEN now - processes[i].last_schedule_time_ms
                           ELSE 0)
                 /\ processes'[i].last_schedule_time_ms = now
          /\ processes'[i].total_wait_time_ms >= processes[i].total_wait_time_ms
      ]_vars

\* a task evaluated before is evaluated again after time has passed
C28_Witness ==
    \E i \in Idx :
        /\ pc = "selected"
        /\ Eligible(i)
        /\ processes[i].first_run = 1
        /\ processes[i].last_schedule_time_ms = now
        /\ processes[i].total_wait_time_ms > 30
        /\ processes[i].total_wait_time_ms = Elapsed

\* the heuristic fields of a task
HeuristicFields(p) ==
    <<p.total_wait_time_ms, p.aging_boost, p.estimated_burst_ms,
      p.interactivity_score, p.last_schedule_time_ms>>

\* C29: the heuristic fields of a task change only in a select call in which
\* the task is Ready or Stopped and has arrived; select leaves them alone
\* for a task that is Completed or has not arrived, and every other step of
\* the loop leaves them alone for every task.
C29_HeuristicFieldsFrame ==
    [][\A i \in Idx :
          /\ HeuristicFields(processes'[i]) # HeuristicFields(processes[i]) =>
                 (pc = "select" /\ Eligible(i))
          /\ (pc = "select" /\ ~Eligible(i)) =>
                 HeuristicFields(processes'[i]) = HeuristicFields(processes[i])
          /\ pc # "select" =>
                 HeuristicFields(processes'[i]) = HeuristicFields(processes[i])
      ]_vars

\* select has evaluated one task and passed over a Completed one and, in
\* another run, one that has not arrived
C29_Witness ==
    \E i, j \in Idx :
        /\ pc = "selected"
        /\ Eligible(i)
        /\ processes[i].last_schedule_time_ms = now
        /\ \/ /\ StateOf(j) = "PROC_COMPLETED"
              /\ processes[j].last_schedule_time_ms < now
           \/ /\ Elapsed < processes[j].arrival_time_ms
              /\ processes[j].estimated_burst_ms = 0
        /\ processes[i].first_run = 1

\* the accounting fields written at the first switch-in, and at completion
FirstRunFields(p) == <<p.first_run, p.response_time_ms, p.start_time_ms>>
FinishFields(p) == <<p.finish_time_ms, p.wait_time_ms>>

\* C30: first_run, response_time and start_time change only at the task's
\* first transition to Running, with response_time = loop's clock reading
\* - scheduler start - arrival; finish_time and wait_time change only at the
\* transition to Completed, with wait_time = finish_time - scheduler start
\* - arrival - burst; no other step changes them.
C30_AccountingWrittenOnce ==
    [][\A i \in Idx :
          /\ FirstRunFields(processes'[i]) # FirstRunFields(processes[i]) =>
                 /\ processes[i].first_run = 0
                 /\ StateOf(i) # "PROC_RUNNING"
                 /\ processes'[i].state = "PROC_RUNNING"
          /\ (processes[i].first_run = 0 /\ processes'[i].state = "PROC_RUNNING") =>
                 /\ processes'[i].first_run = 1
                 /\ processes'[i].start_time_ms = current_time
                 /\ processes'[i].response_time_ms =
                        current_time - scheduler_start_time_ms
                        - processes[i].arrival_time_ms
          /\ FinishFields(processes'[i]) # FinishFields(processes[i]) =>
                 /\ StateOf(i) # "PROC_COMPLETED"
                 /\ processes'[i].state = "PROC_COMPLETED"
          /\ (StateOf(i) # "PROC_COMPLETED" /\ processes'[i].state = "PROC_COMPLETED") =>
                 /\ processes'[i].finish_time_ms = now
                 /\ processes'[i].wait_time_ms =
                        processes'[i].finish_time_ms - scheduler_start_time_ms
                        - processes[i].arrival_time_ms - processes[i].burst_time_ms
      ]_vars

\* a task switched in several times has been Completed, its start stamp
\* still the one of its first switch-in
C30_Witness ==
    \E i \in Idx :
        /\ StateOf(i) = "PROC_COMPLETED"
        /\ processes[i].first_run = 1
        /\ processes[i].remaining_time_ms = 0
        /\ processes[i].burst_time_ms = 60
        /\ processes[i].finish_time_ms >= processes[i].start_time_ms + 60
        /\ processes[i].start_time_ms
               = scheduler_start_time_ms + processes[i].arrival_time_ms
                 + processes[i].response_time_ms
        /\ processes[i].wait_time_ms >= 0

\* C22: a charge of executed_ms to a task adds d to its vruntime, where d is
\* the truncated quotient of executed_ms * 1000000 * 1024 by the weight,
\* that is 0 <= executed_ns * 1024 - d * weight < weight; a task that is not
\* charged keeps its vruntime.  With d = 1024 * q + s the difference is
\* 1024 * (executed_ns - q * weight) - s * weight.
C22_DeltaIsExactFloor ==
    [][\A i \in Idx :
          LET d == processes'[i].vruntime_ns - processes[i].vruntime_ns
              executed_ns == (now' - now) * 1000000
              w == processes[i].weight
              rest == 1024 * (executed_ns - (d \div 1024) * w) - (d % 1024) * w
          IN  IF processes'[i].remaining_time_ms # processes[i].remaining_time_ms
              THEN d >= 0 /\ rest >= 0 /\ rest < w
              ELSE d = 0
      ]_vars

\* a task of weight 29 charged for 7 ms, where the division is not exact
C22_Witness ==
    \E i \in Idx :
        /\ processes[i].weight = 29
        /\ ChargedMs(i) = 7
        /\ processes[i].vruntime_ns = 247172413

\* C23: a charge with a zero or negative weight stops the run and leaves the
\* task's vruntime unchanged.
C23_BadWeightStopsRun ==
    [][\A i \in Idx :
          (/\ pc = "account"
           /\ processes'[i].remaining_time_ms # processes[i].remaining_time_ms
           /\ processes[i].weight <= 0) =>
              /\ pc' # "account"
              /\ processes'[i].vruntime_ns = processes[i].vruntime_ns
      ]_vars

\* C24: the weight of every task registered with a nice value in -20 .. 19
\* is at least 23, hence positive.
C24_WeightAtLeast23 ==
    \A i \in Canonical : processes[i].weight >= 23

\* C32: when the loop is at its top, calls select or has select's result, no
\* task is Running, and the context switch never finds a previous task that
\* is Running and differs from the selected one.
C32_NoRunningAtSelect ==
    /\ pc \in {"loop", "select", "selected", "done"} => Running = {}
    /\ pc = "selected" =>
          ~(/\ current_process_idx # -1
            /\ current_process_idx # next_idx
            /\ StateOf(current_process_idx) = "PROC_RUNNING")

\* select has returned a task other than the one switched in last, which is
\* Stopped
C32_Witness ==
    /\ pc = "selected"
    /\ next_idx # -1
    /\ current_process_idx # -1
    /\ current_process_idx # next_idx
    /\ StateOf(current_process_idx) = "PROC_STOPPED"

\* C33: a task Completed because its burst_remaining reached 0, whose
\* process was not found to have exited, has wait_time = finish_time
\* - scheduler start - arrival - burst, and that is not negative.
C33_WaitTimeNonNegative ==
    \A i \in Idx :
        (StateOf(i) = "PROC_COMPLETED"
             /\ processes[i].remaining_time_ms = 0
             /\ child[i] # "reaped") =>
            /\ processes[i].wait_time_ms =
                   processes[i].finish_time_ms - scheduler_start_time_ms
                   - processes[i].arrival_time_ms - processes[i].burst_time_ms
            /\ processes[i].wait_time_ms >= 0

\* a task that arrived late has run out its burst without having waited
\* more than the loop's overhead, another one after waiting for it
C33_Witness ==
    \E i, j \in Idx :
        /\ i # j
        /\ StateOf(i) = "PROC_COMPLETED"
        /\ processes[i].remaining_time_ms = 0
        /\ child[i] # "reaped"
        /\ processes[i].arrival_time_ms > 0
        /\ processes[i].wait_time_ms <= 5
        /\ StateOf(j) = "PROC_COMPLETED"
        /\ processes[j].remaining_time_ms = 0
        /\ child[j] # "reaped"
        /\ processes[j].wait_time_ms >= 15

\* C34: the response_time of a task that has been scheduled is not negative;
\* when the task select returned had not arrived at the loop's own clock
\* reading, the iteration ends without changing any task record.
C34_ResponseNonNegative ==
    [][/\ \A i \in Idx :
             processes'[i].first_run = 1 => processes'[i].response_time_ms >= 0
       /\ (/\ pc = "selected"
           /\ pc' # "selected"
           /\ next_idx # -1
           /\ current_time - scheduler_start_time_ms
                  < processes[next_idx].arrival_time_ms) =>
              /\ pc' = "loop"
              /\ processes' = processes
              /\ current_process_idx' = current_process_idx
      ]_vars

\* an iteration has been skipped for a task that select saw as arrived and
\* the loop did not; the task has been evaluated and has not been scheduled
C34_Witness ==
    /\ pc = "loop"
    /\ next_idx # -1
    /\ processes[next_idx].first_run = 0
    /\ StateOf(next_idx) = "PROC_READY"
    /\ processes[next_idx].estimated_burst_ms > 0
    /\ current_time - scheduler_start_time_ms < processes[next_idx].arrival_time_ms
    /\ Elapsed > processes[next_idx].arrival_time_ms

\* C36: no step lowers a task's aging_boost or its total_wait.
C36_AgingBoostMonotone ==
    [][\A i \in Idx :
          /\ processes'[i].aging_boost >= processes[i].aging_boost
          /\ processes'[i].total_wait_time_ms >= processes[i].total_wait_time_ms
          /\ processes'[i].aging_boost # processes[i].aging_boost =>
                 processes'[i].total_wait_time_ms > processes[i].total_wait_time_ms
      ]_vars

\* a task that has run is evaluated again and its boost has grown past the
\* first level
C36_Witness ==
    \E i \in Idx :
        /\ pc = "selected"
        /\ Eligible(i)
        /\ processes[i].first_run = 1
        /\ processes[i].remaining_time_ms < processes[i].burst_time_ms
        /\ processes[i].last_schedule_time_ms = now
        /\ processes[i].aging_boost >= 2

\* C35: with select's result in hand and the clock where select read it, a
\* second call of select returns the same index and leaves every task
\* record as the first call left it.
C35_SelectIdempotent ==
    pc = "selected" =>
        select_next_process_cfs_heuristic(processes, now, scheduler_start_time_ms)
            = [procs |-> processes, best_idx |-> next_idx]

\* select has evaluated two tasks, one that has waited and one that has run
C35_Witness ==
    \E i, j \in Idx :
        /\ pc = "selected"
        /\ next_idx # -1
        /\ i # j
        /\ Eligible(i)
        /\ Eligible(j)
        /\ processes[i].last_schedule_time_ms = now
        /\ processes[j].last_schedule_time_ms = now
        /\ processes[i].total_wait_time_ms > 0
        /\ processes[j].remaining_time_ms < processes[j].burst_time_ms

\* the values given to interactivity_score in the second run
ScoreValues == {0, 100, 120}

\* the task records with interactivity_score replaced task by task
Perturbed(ps, v) == [i \in DOMAIN ps |-> [ps[i] EXCEPT !.interactivity_score = v[i]]]

\* a task record, and the task records, without interactivity_score
ErasedTask(proc) == [proc EXCEPT !.interactivity_score = 0]

Erased(ps) == [i \in DOMAIN ps |-> ErasedTask(ps[i])]

\* C31: from task records that differ from the run's in interactivity_score
\* only, each step of the loop makes the same selection and the same branch
\* decisions and leaves task records that again differ in
\* interactivity_score only, with the same vruntimes and lifecycle states.
C31_ScoreDoesNotInfluence ==
    \A v \in [Idx -> ScoreValues] :
        LET q == Perturbed(processes, v)
        IN  /\ pc = "select" =>
                  LET r1 == select_next_process_cfs_heuristic(
                                processes, now, scheduler_start_time_ms)
                      r2 == select_next_process_cfs_heuristic(
                                q, now, scheduler_start_time_ms)
                  IN  /\ r2.best_idx = r1.best_idx
                      /\ Erased(r2.procs) = Erased(r1.procs)
            /\ (pc = "selected" /\ next_idx # -1) =>
                  /\ not_arrived(current_time, scheduler_start_time_ms, q[next_idx])
                       = not_arrived(current_time, scheduler_start_time_ms,
                                     processes[next_idx])
                  /\ schedulable(q[next_idx]) = schedulable(processes[next_idx])
                  /\ ErasedTask(switch_in(q[next_idx], current_time,
                                          scheduler_start_time_ms))
                       = ErasedTask(switch_in(processes[next_idx], current_time,
                                              scheduler_start_time_ms))
            /\ pc = "exec" =>
                  /\ q[next_idx].time_slice_remaining_ms
                       = processes[next_idx].time_slice_remaining_ms
                  /\ \A d \in Overruns :
                        LET executed_time ==
                                processes[next_idx].time_slice_remaining_ms + d
                        IN  /\ update_vruntime(q[next_idx], executed_time)
                                 = update_vruntime(processes[next_idx], executed_time)
                            /\ remaining_after(q[next_idx].remaining_time_ms,
                                               executed_time)
                                 = remaining_after(processes[next_idx].remaining_time_ms,
                                                   executed_time)
            /\ pc = "poll" =>
                  /\ is_finished(q[next_idx], child[next_idx])
                       = is_finished(processes[next_idx], child[next_idx])
                  /\ ErasedTask(complete(q[next_idx], now, scheduler_start_time_ms))
                       = ErasedTask(complete(processes[next_idx], now,
                                             scheduler_start_time_ms))
                  /\ Erased(set_stopped(q, next_idx))
                       = Erased(set_stopped(processes, next_idx))

\* select has chosen between two arrived tasks whose scores differ, and has
\* taken the one with the lower score
C31_Witness ==
    \E j \in Idx :
        /\ pc = "selected"
        /\ next_idx # -1
        /\ j # next_idx
        /\ Eligible(j)
        /\ processes[j].last_schedule_time_ms = now
        /\ processes[next_idx].interactivity_score < processes[j].interactivity_score
====
